---- MODULE Spec2Model ----
(***************************************************************************)
(* TD control (Sarsa, ExpectedSarsa, QLearning) over a tabular action-value *)
(* function with optional double estimation, driven by Train.run_episode   *)
(* in an episodic gridworld.                                               *)
(*                                                                         *)
(* Numbers: Python floats are modelled as exact rationals <<num, den>>     *)
(* with den > 0 and gcd(num, den) = 1.                                     *)
(***************************************************************************)
EXTENDS Integers, Sequences, FiniteSets, TLC

(***************************************************************************)
(* Bounds of the model.                                                    *)
(***************************************************************************)
\* number of update_action_value calls a test harness run issues
MaxUpdates == 2
\* GridWorld(timeout=...): moves after which an episode is cut off
MaxTimeout == 2
\* Train(episodes=...): episodes of one training run
MaxEpisodes == 2

(***************************************************************************)
(* Rational arithmetic.                                                    *)
(***************************************************************************)
Abs(n) == IF n < 0 THEN -n ELSE n

RECURSIVE GCD(_, _)
GCD(a, b) == IF b = 0 THEN a ELSE GCD(b, a % b)

\* the rational n/d (d # 0) in lowest terms with a positive denominator
R(n, d) ==
    LET s == IF d < 0 THEN -1 ELSE 1
        g == GCD(Abs(n), Abs(d))
    IN  <<(s * n) \div g, (s * d) \div g>>

Zero == <<0, 1>>
One == <<1, 1>>
RInt(n) == <<n, 1>>

\* least common multiple of two positive denominators
LCM(a, b) == (a \div GCD(a, b)) * b

RAdd(x, y) ==
    LET l == LCM(x[2], y[2])
    IN  R(x[1] * (l \div x[2]) + y[1] * (l \div y[2]), l)
RNeg(x) == <<-x[1], x[2]>>
RSub(x, y) == RAdd(x, RNeg(y))
\* the factors are reduced crosswise before they are multiplied
RMul(x, y) ==
    LET g1 == GCD(Abs(x[1]), y[2])
        g2 == GCD(Abs(y[1]), x[2])
    IN  R((x[1] \div g1) * (y[1] \div g2), (x[2] \div g2) * (y[2] \div g1))
RDiv(x, y) == RMul(x, R(y[2], y[1]))
RLess(x, y) ==
    LET l == LCM(x[2], y[2])
    IN  x[1] * (l \div x[2]) < y[1] * (l \div y[2])

(***************************************************************************)
(* State.                                                                  *)
(***************************************************************************)
VARIABLES
    \* ActionValue / TabularActionValue
    actions,                         \* self.actions: the ordered action list
    epsilon,                         \* self.epsilon
    double,                          \* self.double
    flag,                            \* self.flag
    tabular_action_value,            \* state -> row of |actions| values
    auxiliary_tabular_action_value,  \* state -> row of |actions| values
    \* Agent
    greedy,                          \* self.greedy
    \* TDControl
    control,                         \* the class of the control: its name
    alpha,                           \* self.alpha
    discount,                        \* self.discount
    \* GridWorld and the game engine it owns (None before the first reset)
    timeout,                         \* self.timeout
    position,                        \* the player's position (row, column)
    elapsed,                         \* Player.elapsed
    game_over,                       \* self.game.game_over
    start_state,                     \* self.start_state
    agent_states,                    \* self.agent_states
    agent_actions,                   \* self.agent_actions
    latest_reward,                   \* self.latest_reward
    episode_reward,                  \* self.episode_reward
    \* Train
    episodes,                        \* self.episodes
    episode_rewards,                 \* self.episode_rewards
    pc,                              \* where Train.train / run_episode is
    \* what the latest call was, what it was given and what it gave back
    last,
    \* number of update_action_value calls that returned normally
    nupdates

estimator == <<actions, epsilon, double, flag, tabular_action_value,
               auxiliary_tabular_action_value>>
tables == <<tabular_action_value, auxiliary_tabular_action_value>>
config == <<greedy, control, alpha, discount, timeout, episodes>>
environment == <<position, elapsed, game_over, start_state, agent_states,
                 agent_actions, latest_reward, episode_reward>>
train == <<episode_rewards, pc>>
vars == <<estimator, config, environment, train, last, nupdates>>

\* Python's None
None == <<>>

(***************************************************************************)
(* ActionValue.__init__ and TabularActionValue.__init__                    *)
(***************************************************************************)
\* [0]*len(self.actions): a Python list, indexed from 0
ZeroRow(acts) == [i \in 0..(Len(acts) - 1) |-> Zero]

NewTable(states, acts) == [s \in states |-> ZeroRow(acts)]

(***************************************************************************)
(* numpy reductions over a row (a function on 0..n-1).                     *)
(***************************************************************************)
\* np.argmax: scan from the left, keep the first strictly larger value
RECURSIVE ArgmaxScan(_, _, _)
ArgmaxScan(row, i, best) ==
    IF i \notin DOMAIN row THEN best
    ELSE ArgmaxScan(row, i + 1, IF RLess(row[best], row[i]) THEN i ELSE best)

\* a variant that keeps the last maximal index
RECURSIVE ArgmaxScanLast(_, _, _)
ArgmaxScanLast(row, i, best) ==
    IF i \notin DOMAIN row THEN best
    ELSE ArgmaxScanLast(row, i + 1,
                        IF RLess(row[i], row[best]) THEN best ELSE i)

np_argmax_last(row) == ArgmaxScanLast(row, 1, 0)

np_argmax(row) == ArgmaxScan(row, 1, 0)

RECURSIVE MaxScan(_, _, _)
MaxScan(row, i, best) ==
    IF i \notin DOMAIN row THEN best
    ELSE MaxScan(row, i + 1, IF RLess(best, row[i]) THEN row[i] ELSE best)

np_max(row) == MaxScan(row, 1, row[0])

(***************************************************************************)
(* Results of calls.  err names the validation that raised ValueError      *)
(* ("none" when the call returned normally).                               *)
(***************************************************************************)
ErrState == "_validate_state"
ErrAction == "_validate_action"

\* a variant without the test for negative actions
validate_action_upper(state, action) ==
    ~(action >= Len(actions))

\* ActionValue._validate_action: TRUE when the check passes
validate_action(state, action) ==
    ~(action < 0 \/ action >= Len(actions))

\* TabularActionValue._validate_state: TRUE when the check passes
validate_state(state) ==
    state \in DOMAIN tabular_action_value

\* the first validation that raises for (state, action), "none" otherwise
Validate(state, action) ==
    IF ~validate_state(state) THEN ErrState
    ELSE IF ~validate_action(state, action) THEN ErrAction
    ELSE "none"

(***************************************************************************)
(* Python list indexing: the position row[i] accesses (a negative index    *)
(* counts from the end); a position outside the list raises IndexError.    *)
(***************************************************************************)
ListPos(row, i) == IF i < 0 THEN Cardinality(DOMAIN row) + i ELSE i

(***************************************************************************)
(* TabularActionValue.get_action_value                                     *)
(***************************************************************************)
\* a variant that reads the table the latest update wrote
get_action_value_written(state, action) ==
    IF Validate(state, action) # "none"
    THEN [err |-> Validate(state, action), value |-> Zero]
    ELSE LET row == IF ~double \/ flag = 1
                    THEN tabular_action_value[state]
                    ELSE auxiliary_tabular_action_value[state]
         IN  [err |-> "none", value |-> row[action]]

get_action_value(state, action) ==
    IF Validate(state, action) # "none"
    THEN [err |-> Validate(state, action), value |-> Zero]
    ELSE LET row == IF ~double \/ flag = 0
                    THEN tabular_action_value[state]
                    ELSE auxiliary_tabular_action_value[state]
         IN  IF ListPos(row, action) \notin DOMAIN row
             THEN [err |-> "IndexError", value |-> Zero]
             ELSE [err |-> "none", value |-> row[ListPos(row, action)]]

(***************************************************************************)
(* TabularActionValue.update_action_value: the error it raises and the     *)
(* tables and flag it leaves behind.                                       *)
(***************************************************************************)
\* a variant that assigns the update instead of adding it
update_action_value_assign(state, action, update) ==
    IF Validate(state, action) # "none"
    THEN [err |-> Validate(state, action),
          tabular |-> tabular_action_value,
          auxiliary |-> auxiliary_tabular_action_value, flag |-> flag]
    ELSE IF ~double \/ flag = 0
    THEN [err |-> "none",
          tabular |-> [tabular_action_value EXCEPT ![state][action] = update],
          auxiliary |-> auxiliary_tabular_action_value, flag |-> 1]
    ELSE [err |-> "none", tabular |-> tabular_action_value,
          auxiliary |-> [auxiliary_tabular_action_value EXCEPT
                            ![state][action] = update],
          flag |-> 0]

\* a variant that sets the flag but never clears it
update_action_value_stuck(state, action, update) ==
    IF Validate(state, action) # "none"
    THEN [err |-> Validate(state, action),
          tabular |-> tabular_action_value,
          auxiliary |-> auxiliary_tabular_action_value, flag |-> flag]
    ELSE IF ~double \/ flag = 0
    THEN [err |-> "none",
          tabular |-> [tabular_action_value EXCEPT
                          ![state][action] = RAdd(@, update)],
          auxiliary |-> auxiliary_tabular_action_value, flag |-> 1]
    ELSE [err |-> "none", tabular |-> tabular_action_value,
          auxiliary |-> [auxiliary_tabular_action_value EXCEPT
                            ![state][action] = RAdd(@, update)],
          flag |-> 1]

\* a variant that flips the flag on every update, double or not
update_action_value_toggle(state, action, update) ==
    IF Validate(state, action) # "none"
    THEN [err |-> Validate(state, action),
          tabular |-> tabular_action_value,
          auxiliary |-> auxiliary_tabular_action_value, flag |-> flag]
    ELSE IF ~double \/ flag = 0
    THEN [err |-> "none",
          tabular |-> [tabular_action_value EXCEPT
                          ![state][action] = RAdd(@, update)],
          auxiliary |-> auxiliary_tabular_action_value, flag |-> 1 - flag]
    ELSE [err |-> "none", tabular |-> tabular_action_value,
          auxiliary |-> [auxiliary_tabular_action_value EXCEPT
                            ![state][action] = RAdd(@, update)],
          flag |-> 0]

update_action_value(state, action, update) ==
    LET unchanged == [tabular |-> tabular_action_value,
                      auxiliary |-> auxiliary_tabular_action_value,
                      flag |-> flag]
    IN  IF Validate(state, action) # "none"
        THEN [err |-> Validate(state, action)] @@ unchanged
        ELSE IF ListPos(tabular_action_value[state], action)
                    \notin DOMAIN tabular_action_value[state]
        THEN [err |-> "IndexError"] @@ unchanged
        ELSE IF ~double \/ flag = 0
        THEN [err |-> "none",
              tabular |-> [tabular_action_value EXCEPT
                  ![state][ListPos(tabular_action_value[state], action)] =
                      RAdd(@, update)],
              auxiliary |-> auxiliary_tabular_action_value,
              flag |-> 1]
        ELSE [err |-> "none",
              tabular |-> tabular_action_value,
              auxiliary |-> [auxiliary_tabular_action_value EXCEPT
                  ![state][ListPos(tabular_action_value[state], action)] =
                      RAdd(@, update)],
              flag |-> 0]

(***************************************************************************)
(* TabularActionValue.choose_next_action.  explore is the outcome of       *)
(* np.random.rand() < self.epsilon and pick the position np.random.choice  *)
(* draws in self.actions; drew counts the draws the call consumed.         *)
(***************************************************************************)
\* the outcomes np.random.rand() < self.epsilon can have, rand() in [0, 1)
RandLessEpsilon ==
    {b \in BOOLEAN : (b => RLess(Zero, epsilon)) /\ (~b => RLess(epsilon, One))}

\* elementwise sum of the two rows: map(add, primary, auxiliary)
avg_action_value(state) ==
    [i \in DOMAIN tabular_action_value[state] |->
        RAdd(tabular_action_value[state][i],
             auxiliary_tabular_action_value[state][i])]

\* the outcomes of the draws one choose_next_action call makes: rand() is
\* drawn unless greedy, np.random.choice only when rand() < epsilon
RandDraws(isGreedy) == IF isGreedy THEN {FALSE} ELSE RandLessEpsilon
ChoiceDraws(explore) == IF explore THEN 1..Len(actions) ELSE {1}

choose_next_action(state, isGreedy, explore, pick) ==
    IF ~validate_state(state)
    THEN [err |-> ErrState, chosen |-> 0, drew |-> 0]
    ELSE IF ~isGreedy /\ explore
    THEN [err |-> "none", chosen |-> actions[pick], drew |-> 2]
    ELSE [err |-> "none",
          chosen |-> IF double THEN np_argmax(avg_action_value(state))
                     ELSE np_argmax(tabular_action_value[state]),
          drew |-> IF isGreedy THEN 0 ELSE 1]

(***************************************************************************)
(* TabularActionValue.get_expected_action_value                            *)
(***************************************************************************)
\* a variant that selects the table the next update writes
action_value_function_written ==
    IF double /\ flag = 1 THEN auxiliary_tabular_action_value
    ELSE tabular_action_value

\* the table get_expected_action_value and get_best_action_value read
action_value_function ==
    IF double /\ flag = 0 THEN auxiliary_tabular_action_value
    ELSE tabular_action_value

\* a variant whose weight of the best action is 1 - epsilon
RECURSIVE ExpectedLoopGreedyWeight(_, _, _, _)
ExpectedLoopGreedyWeight(row, best_action, i, acc) ==
    IF i \notin DOMAIN row THEN acc
    ELSE LET n == RInt(Len(actions))
             multiplier ==
                 IF i = best_action THEN RSub(One, epsilon)
                 ELSE RDiv(RMul(epsilon, One), n)
         IN  ExpectedLoopGreedyWeight(row, best_action, i + 1,
                                      RAdd(acc, RMul(row[i], multiplier)))

\* the for loop over enumerate(action_value_function[state]), from index i
RECURSIVE ExpectedLoop(_, _, _, _)
ExpectedLoop(row, best_action, i, acc) ==
    IF i \notin DOMAIN row THEN acc
    ELSE LET n == RInt(Len(actions))
             multiplier ==
                 IF i = best_action
                 THEN RSub(One, RMul(epsilon, RSub(One, RDiv(One, n))))
                 ELSE RDiv(RMul(epsilon, One), n)
         IN  ExpectedLoop(row, best_action, i + 1,
                          RAdd(acc, RMul(row[i], multiplier)))

get_expected_action_value(state) ==
    IF ~validate_state(state) THEN [err |-> ErrState, value |-> Zero]
    ELSE [err |-> "none",
          value |-> ExpectedLoop(action_value_function[state],
                                 np_argmax(action_value_function[state]),
                                 0, Zero)]

(***************************************************************************)
(* TabularActionValue.get_best_action_value                                *)
(***************************************************************************)
\* a variant that reads the table the next update writes
get_best_action_value_written(state) ==
    IF ~validate_state(state) THEN [err |-> ErrState, value |-> Zero]
    ELSE IF double /\ flag = 1
    THEN [err |-> "none",
          value |-> np_max(auxiliary_tabular_action_value[state])]
    ELSE [err |-> "none", value |-> np_max(tabular_action_value[state])]

get_best_action_value(state) ==
    IF ~validate_state(state) THEN [err |-> ErrState, value |-> Zero]
    ELSE IF double /\ flag = 0
    THEN [err |-> "none",
          value |-> np_max(auxiliary_tabular_action_value[state])]
    ELSE [err |-> "none", value |-> np_max(tabular_action_value[state])]

(***************************************************************************)
(* The record of the latest call.                                          *)
(***************************************************************************)
Call(op, state, action, isGreedy, delta, err, value, chosen, drew) ==
    [op |-> op, state |-> state, action |-> action, greedy |-> isGreedy,
     delta |-> delta, err |-> err, value |-> value, chosen |-> chosen,
     drew |-> drew]

NoCall == Call("none", <<>>, 0, FALSE, Zero, "none", Zero, 0, 0)

(***************************************************************************)
(* Test harness of the estimator: a caller that builds one                 *)
(* TabularActionValue and calls its methods in any order with valid and    *)
(* invalid arguments.                                                      *)
(***************************************************************************)
HarnessStates == {<<0, 0>>}
\* a state the estimator was not built with
UndefinedState == <<0, 1>>
HarnessActions == <<0, 1, 2>>
Epsilons == {Zero, R(1, 2)}
Updates == {RInt(-1), R(1, 2)}

ArgStates == HarnessStates \cup {UndefinedState}
ArgActions == (-1)..Len(actions)

Init ==
    /\ actions = HarnessActions
    /\ epsilon \in Epsilons
    /\ double \in BOOLEAN
    /\ flag = 0
    /\ tabular_action_value = NewTable(HarnessStates, actions)
    /\ auxiliary_tabular_action_value = NewTable(HarnessStates, actions)
    /\ last = NoCall
    /\ nupdates = 0
    \* no agent, control, environment or training run is built
    /\ greedy = FALSE
    /\ control = None
    /\ alpha = None
    /\ discount = None
    /\ timeout = None
    /\ position = None
    /\ elapsed = None
    /\ game_over = FALSE
    /\ start_state = None
    /\ agent_states = None
    /\ agent_actions = None
    /\ latest_reward = None
    /\ episode_reward = None
    /\ episodes = 0
    /\ episode_rewards = <<>>
    /\ pc = "harness"

CallGetActionValue(state, action) ==
    /\ \E r \in {get_action_value(state, action)} :
           last' = Call("get_action_value", state, action, FALSE, Zero,
                        r.err, r.value, 0, 0)
    /\ UNCHANGED <<estimator, nupdates, config, environment, train>>

CallUpdateActionValue(state, action, update) ==
    \E r \in {update_action_value(state, action, update)} :
        /\ r.err = "none" => nupdates < MaxUpdates
        /\ tabular_action_value' = r.tabular
        /\ auxiliary_tabular_action_value' = r.auxiliary
        /\ flag' = r.flag
        /\ nupdates' = IF r.err = "none" THEN nupdates + 1 ELSE nupdates
        /\ last' = Call("update_action_value", state, action, FALSE, update,
                        r.err, Zero, 0, 0)
        /\ UNCHANGED <<actions, epsilon, double, config, environment, train>>

CallChooseNextAction(state, isGreedy) ==
    \E explore \in RandDraws(isGreedy) : \E pick \in ChoiceDraws(explore) :
        \E r \in {choose_next_action(state, isGreedy, explore, pick)} :
            /\ last' = Call("choose_next_action", state, 0, isGreedy, Zero,
                            r.err, Zero, r.chosen, r.drew)
            /\ UNCHANGED <<estimator, nupdates, config, environment, train>>

CallGetExpectedActionValue(state) ==
    /\ \E r \in {get_expected_action_value(state)} :
           last' = Call("get_expected_action_value", state, 0, FALSE, Zero,
                        r.err, r.value, 0, 0)
    /\ UNCHANGED <<estimator, nupdates, config, environment, train>>

CallGetBestActionValue(state) ==
    /\ \E r \in {get_best_action_value(state)} :
           last' = Call("get_best_action_value", state, 0, FALSE, Zero,
                        r.err, r.value, 0, 0)
    /\ UNCHANGED <<estimator, nupdates, config, environment, train>>

Next ==
    \/ \E state \in ArgStates, action \in ArgActions :
           CallGetActionValue(state, action)
    \/ \E state \in ArgStates, action \in ArgActions, update \in Updates :
           CallUpdateActionValue(state, action, update)
    \/ \E state \in ArgStates, isGreedy \in BOOLEAN :
           CallChooseNextAction(state, isGreedy)
    \/ \E state \in ArgStates : CallGetExpectedActionValue(state)
    \/ \E state \in ArgStates : CallGetBestActionValue(state)

Spec == Init /\ [][Next]_vars

(***************************************************************************)
(* Properties of the estimator, checked under Spec.                        *)
(***************************************************************************)
ValidActions == 0..(Len(actions) - 1)

\* the step is an update_action_value(state, action, update) call that
\* returned normally
UpdateReturned(state, action, update) ==
    /\ last'.op = "update_action_value"
    /\ last'.err = "none"
    /\ last'.state = state
    /\ last'.action = action
    /\ last'.delta = update
    /\ nupdates' = nupdates + 1

\* C1: in non-double mode, get_action_value(state, action) right after
\* update_action_value(state, action, d) returns the value it returned right
\* before the update plus d, for every valid state and action, every d and
\* after any earlier calls.
C1_UpdateAddsDelta ==
    [][\A state \in HarnessStates, action \in ValidActions, d \in Updates :
          (~double /\ UpdateReturned(state, action, d)) =>
              /\ get_action_value(state, action).err = "none"
              /\ get_action_value(state, action)'.err = "none"
              /\ get_action_value(state, action)'.value =
                     RAdd(get_action_value(state, action).value, d)]_vars

\* C1 happens: a non-double estimator returned from an update of an entry
\* that earlier updates had already moved away from 0
C1_Witness ==
    /\ ~double
    /\ last.op = "update_action_value"
    /\ last.err = "none"
    /\ nupdates >= 2
    /\ get_action_value(last.state, last.action).value
           \notin {Zero, last.delta}

\* table with the entry (state, action) increased by d
Bumped(table, state, action, d) ==
    [table EXCEPT ![state][action] = RAdd(@, d)]

\* C2: in double mode every update_action_value call that returns normally
\* changes one entry of one table, the primary table when the flag is 0 and
\* the auxiliary table when it is 1, the next update writes the other table,
\* and after an even number of updates the flag is 0 again.
C2_DoubleAlternates ==
    /\ [](double => flag = nupdates % 2)
    /\ [][\A state \in HarnessStates, action \in ValidActions, d \in Updates :
            (double /\ UpdateReturned(state, action, d)) =>
                /\ flag = 0 =>
                     /\ tabular_action_value' =
                            Bumped(tabular_action_value, state, action, d)
                     /\ tabular_action_value' # tabular_action_value
                     /\ UNCHANGED auxiliary_tabular_action_value
                     /\ flag' = 1
                /\ flag = 1 =>
                     /\ auxiliary_tabular_action_value' =
                            Bumped(auxiliary_tabular_action_value, state,
                                   action, d)
                     /\ auxiliary_tabular_action_value' #
                            auxiliary_tabular_action_value
                     /\ UNCHANGED tabular_action_value
                     /\ flag' = 0]_vars

\* C2 happens: a double estimator has written both tables and its flag is
\* back at 0 after two updates
C2_Witness ==
    /\ double
    /\ last.op = "update_action_value"
    /\ last.err = "none"
    /\ nupdates = 2
    /\ flag = 0
    /\ tabular_action_value # NewTable(HarnessStates, actions)
    /\ auxiliary_tabular_action_value # NewTable(HarnessStates, actions)

EstimatorOps == {"get_action_value", "update_action_value",
                 "choose_next_action", "get_expected_action_value",
                 "get_best_action_value"}

\* C3: every estimator operation called with a state outside the domain,
\* and get_action_value / update_action_value called with an action outside
\* [0, |actions|), raises the error of the state check, respectively of the
\* action check, and leaves both tables and the flag as they were.
C3_InvalidArgumentsRaise ==
    [][last'.op \in EstimatorOps =>
          /\ last'.state \notin DOMAIN tabular_action_value =>
                 /\ last'.err = ErrState
                 /\ UNCHANGED <<tables, flag>>
          /\ ( /\ last'.state \in DOMAIN tabular_action_value
               /\ last'.op \in {"get_action_value", "update_action_value"}
               /\ last'.action \notin ValidActions ) =>
                 /\ last'.err = ErrAction
                 /\ UNCHANGED <<tables, flag>>]_vars

\* C3 happens: an update with a negative action was refused by an estimator
\* whose tables hold updates
C3_Witness ==
    /\ last.op = "update_action_value"
    /\ last.state \in HarnessStates
    /\ last.action = -1
    /\ last.err = ErrAction
    /\ nupdates > 0

\* the least index at which row is maximal
FirstMaximalIndex(row) ==
    CHOOSE i \in DOMAIN row :
        /\ \A j \in DOMAIN row : ~RLess(row[i], row[j])
        /\ \A j \in DOMAIN row : j < i => RLess(row[j], row[i])

\* C7: choose_next_action(state, greedy=true) draws no random number and
\* returns the least index that maximizes the primary row of the state in
\* non-double mode, and the elementwise sum of the primary and auxiliary
\* rows in double mode.
C7_GreedyChoiceIsFirstArgmax ==
    (last.op = "choose_next_action" /\ last.greedy /\ last.err = "none") =>
        /\ last.drew = 0
        /\ last.chosen =
               IF double
               THEN FirstMaximalIndex(
                        [a \in ValidActions |->
                            RAdd(tabular_action_value[last.state][a],
                                 auxiliary_tabular_action_value[last.state][a])])
               ELSE FirstMaximalIndex(tabular_action_value[last.state])

\* C7 happens: a greedy choice on a double estimator picked an action that is
\* not the first one, with another action of the same summed value after it
C7_Witness ==
    /\ last.op = "choose_next_action"
    /\ last.greedy
    /\ last.err = "none"
    /\ double
    /\ last.chosen > 0
    /\ \E a \in ValidActions :
           /\ a > last.chosen
           /\ avg_action_value(last.state)[a] =
                  avg_action_value(last.state)[last.chosen]
    /\ auxiliary_tabular_action_value # NewTable(HarnessStates, actions)

\* the sum of f over the finite set S
RECURSIVE RSum(_, _)
RSum(f, S) ==
    IF S = {} THEN Zero
    ELSE LET x == CHOOSE y \in S : TRUE
         IN  RAdd(f[x], RSum(f, S \ {x}))

\* (1 - epsilon + epsilon/|A|) * row[best] + sum of (epsilon/|A|) * row[a]
\* over the other actions a
EpsilonGreedyExpectation(row, best) ==
    LET n == RInt(Len(actions))
    IN  RAdd(RMul(RAdd(RSub(One, epsilon), RDiv(epsilon, n)), row[best]),
             RSum([a \in DOMAIN row |-> RMul(RDiv(epsilon, n), row[a])],
                  DOMAIN row \ {best}))

\* C8: get_expected_action_value(state) is
\* (1 - epsilon + epsilon/|A|) * value(argmax) + the sum over the other
\* actions of (epsilon/|A|) * value(a), over the row of the table the query
\* reads, argmax being the first maximal index of that row.
C8_ExpectedValueFormula ==
    (last.op = "get_expected_action_value" /\ last.err = "none") =>
        LET row == IF double /\ flag = 0
                   THEN auxiliary_tabular_action_value[last.state]
                   ELSE tabular_action_value[last.state]
        IN  last.value = EpsilonGreedyExpectation(row, FirstMaximalIndex(row))

\* C8 happens: the expectation was taken with epsilon > 0 over a row with
\* different values whose best action is not the first one
C8_Witness ==
    /\ last.op = "get_expected_action_value"
    /\ last.err = "none"
    /\ epsilon # Zero
    /\ np_argmax(action_value_function[last.state]) > 0
    /\ \E a \in ValidActions :
           action_value_function[last.state][a] \notin
               {Zero, np_max(action_value_function[last.state])}
    /\ last.value # Zero

\* C9: with epsilon = 0, get_expected_action_value(state) equals
\* get_best_action_value(state) for every valid state, in both modes and
\* for either value of the flag, after any updates.
C9_ExpectedIsBestWhenGreedy ==
    epsilon = Zero =>
        /\ \A state \in HarnessStates :
               get_expected_action_value(state).value =
                   get_best_action_value(state).value
        /\ (last.op = "get_expected_action_value" /\ last.err = "none") =>
               last.value = get_best_action_value(last.state).value
        /\ (last.op = "get_best_action_value" /\ last.err = "none") =>
               last.value = get_expected_action_value(last.state).value

\* C9 happens: with epsilon = 0 the expectation was read from a double
\* estimator whose flag is 1 and whose two tables differ in the state
C9_Witness ==
    /\ epsilon = Zero
    /\ double
    /\ flag = 1
    /\ last.op = "get_expected_action_value"
    /\ last.err = "none"
    /\ last.value # Zero
    /\ np_max(tabular_action_value[last.state]) #
           np_max(auxiliary_tabular_action_value[last.state])


\* C6: for single and double estimators, get_expected_action_value(state)
\* is the expectation of the values under the epsilon-greedy policy the agent
\* follows: the weight 1 - epsilon + epsilon/|A| lies on the action that
\* choose_next_action(state, greedy=true) returns and epsilon/|A| on every
\* other action.  (The values are those of the row the query reads.)
C6_ExpectationFollowsBehaviorPolicy ==
    (last.op = "get_expected_action_value" /\ last.err = "none") =>
        last.value =
            EpsilonGreedyExpectation(
                action_value_function[last.state],
                choose_next_action(last.state, TRUE, FALSE, 1).chosen)

(***************************************************************************)
(* GridWorld.  The level is a reduced one in the format of LEVELS, with    *)
(* the tiles of the repository's levels (wall '#', goal 'G', start 'A',    *)
(* wind '.' and '+') and the actions north (0) and south (1):              *)
(*     ####                                                                *)
(*     #G #                                                                *)
(*     #.+#                                                                *)
(*     # A#                                                                *)
(*     ####                                                                *)
(***************************************************************************)
ascii_grid == << <<"#", "#", "#", "#">>,
                 <<"#", "G", " ", "#">>,
                 <<"#", ".", "+", "#">>,
                 <<"#", " ", "A", "#">>,
                 <<"#", "#", "#", "#">> >>
nrows == Len(ascii_grid)
ncols == Len(ascii_grid[1])

\* GridWorld.get_states (mode 'coordinate')
get_states == {<<i, j>> : i \in 0..(nrows - 1), j \in 0..(ncols - 1)}

\* GridWorld.get_actions: the 'actions' of the level
get_actions == <<0, 1>>

\* the character of the level at a position (row, column)
Art(p) == ascii_grid[p[1] + 1][p[2] + 1]

\* where the sprite 'A' starts
StartPosition == CHOOSE p \in get_states : Art(p) = "A"

\* the board rendered before an update: the player over the backdrop, with
\* what_lies_beneath = ' ' under the player's start
Board(p, player) ==
    IF p = player THEN "A" ELSE IF Art(p) = "A" THEN " " ELSE Art(p)

\* layers[c][p]: the mask of character c on the rendered board
Layer(c, p, player) == Board(p, player) = c

\* MazeWalker._north/_south/_west/_east: one tile, unless it is impassable
Move(p, d, player) ==
    LET q == <<p[1] + d[1], p[2] + d[2]>>
    IN  IF Board(q, player) = "#" THEN p ELSE q

North == <<-1, 0>>
South == <<1, 0>>
West == <<0, -1>>
East == <<0, 1>>

(***************************************************************************)
(* GridWorld.Player.update: the player's new position, the reward added to *)
(* the plot, whether the episode is terminated, and the moves elapsed.     *)
(* its_showtime() issues the update with actions = None, which equals none *)
(* of the action codes: ShowtimeAction stands for it.                      *)
(***************************************************************************)
ShowtimeAction == -1

\* a variant that compares the moves with max_moves before it counts the
\* move
PlayerUpdate_late(player, moves, max_moves, action) ==
    LET moved == IF action = 0 THEN Move(player, North, player)
                 ELSE IF action = 1 THEN Move(player, South, player)
                 ELSE IF action = 2 THEN Move(player, West, player)
                 ELSE IF action = 3 THEN Move(player, East, player)
                 ELSE player
        blown == IF Layer(".", moved, player)
                 THEN Move(moved, West, player)
                 ELSE IF Layer("+", moved, player)
                 THEN Move(Move(moved, West, player), West, player)
                 ELSE moved
        goal == Layer("G", blown, player)
    IN  [position |-> blown,
         reward |-> IF goal THEN 0 ELSE -1,
         elapsed |-> moves + 1,
         game_over |-> action = 9 \/ goal \/ (moves = max_moves)]

PlayerUpdate(player, moves, max_moves, action) ==
    LET moved == IF action = 0 THEN Move(player, North, player)
                 ELSE IF action = 1 THEN Move(player, South, player)
                 ELSE IF action = 2 THEN Move(player, West, player)
                 ELSE IF action = 3 THEN Move(player, East, player)
                 ELSE player
        quit == action = 9
        blown == IF Layer(".", moved, player)
                 THEN Move(moved, West, player)
                 ELSE IF Layer("+", moved, player)
                 THEN Move(Move(moved, West, player), West, player)
                 ELSE moved
        goal == Layer("G", blown, player)
    IN  [position |-> blown,
         reward |-> IF goal THEN 0 ELSE -1,
         elapsed |-> moves + 1,
         game_over |-> quit \/ goal \/ (moves + 1 = max_moves)]

\* GridWorld.get_agent_state (mode 'coordinate')
get_agent_state == position

\* a variant that indexes the latest state instead of the one before it
get_previous_agent_state_latest ==
    IF Len(agent_states) <= 1 THEN start_state
    ELSE agent_states[Len(agent_states)]

\* GridWorld.get_previous_agent_state
get_previous_agent_state ==
    IF Len(agent_states) <= 1 THEN start_state
    ELSE agent_states[Len(agent_states) - 1]

\* GridWorld.get_latest_action
get_latest_action == agent_actions[Len(agent_actions)]

\* GridWorld.get_latest_reward
get_latest_reward == latest_reward

\* GridWorld.is_episode_over
is_episode_over == game_over

\* GridWorld.reset: initialize() then start() (not on the terminal)
Reset ==
    \E u \in {PlayerUpdate(StartPosition, -1, timeout, ShowtimeAction)} :
        /\ start_state' = StartPosition
        /\ episode_reward' = 0
        /\ agent_actions' = <<>>
        /\ agent_states' = <<StartPosition, u.position>>
        /\ position' = u.position
        /\ elapsed' = u.elapsed
        /\ game_over' = u.game_over
        /\ latest_reward' = u.reward

\* GridWorld.perform_action
PerformAction(action) ==
    \E u \in {PlayerUpdate(position, elapsed, timeout, action)} :
        /\ position' = u.position
        /\ elapsed' = u.elapsed
        /\ game_over' = u.game_over
        /\ agent_actions' = Append(agent_actions, action)
        /\ agent_states' = Append(agent_states, u.position)
        /\ episode_reward' = episode_reward + u.reward
        /\ latest_reward' = u.reward
        /\ UNCHANGED start_state

(***************************************************************************)
(* Agent.  Each getter gives the error of the first call that raised and   *)
(* the value returned otherwise.                                           *)
(***************************************************************************)
\* Agent.get_next_action_value
get_next_action_value(explore, pick) ==
    LET state == get_agent_state
        next_action == choose_next_action(state, greedy, explore, pick)
    IN  IF next_action.err # "none"
        THEN [err |-> next_action.err, value |-> Zero, chosen |-> 0,
              drew |-> 0]
        ELSE [err |-> get_action_value(state, next_action.chosen).err,
              value |-> get_action_value(state, next_action.chosen).value,
              chosen |-> next_action.chosen,
              drew |-> next_action.drew]

\* Agent.get_action_value_to_update
get_action_value_to_update ==
    get_action_value(get_previous_agent_state, get_latest_action)

\* Agent.get_expected_next_action_value
get_expected_next_action_value ==
    get_expected_action_value(get_agent_state)

\* a variant that takes the expectation under the epsilon-greedy policy
get_best_next_action_value_policy ==
    get_expected_action_value(get_agent_state)

\* Agent.get_best_next_action_value
get_best_next_action_value ==
    get_best_action_value(get_agent_state)

\* a variant that updates the pair of the state the agent is in now
agent_update_action_value_current(value) ==
    update_action_value(get_agent_state, get_latest_action, value)

\* Agent.update_action_value
agent_update_action_value(value) ==
    update_action_value(get_previous_agent_state, get_latest_action, value)

(***************************************************************************)
(* TDControl: Sarsa.update, ExpectedSarsa.update, QLearning.update.        *)
(***************************************************************************)
Controls == {"sarsa", "expected_sarsa", "qlearning"}

\* the second term of the target, before the discount
Bootstrap(explore, pick) ==
    IF control = "sarsa"
    THEN get_next_action_value(explore, pick)
    ELSE IF control = "expected_sarsa"
    THEN [err |-> get_expected_next_action_value.err,
          value |-> get_expected_next_action_value.value,
          chosen |-> 0, drew |-> 0]
    ELSE [err |-> get_best_next_action_value.err,
          value |-> get_best_next_action_value.value,
          chosen |-> 0, drew |-> 0]

\* only Sarsa's bootstrap calls choose_next_action
BootstrapDraws == IF control = "sarsa" THEN RandDraws(greedy) ELSE {FALSE}

\* a variant that leaves the discount out of the target
target_undiscounted(bootstrap) ==
    RAdd(RInt(get_latest_reward), bootstrap)

target(bootstrap) ==
    RAdd(RInt(get_latest_reward), RMul(discount, bootstrap))

td_error(bootstrap) ==
    RSub(target(bootstrap), get_action_value_to_update.value)

\* control.update(agent, environment): the error of the first call that
\* raised, and the tables and flag left behind
ControlUpdateResult(explore, pick) ==
    LET b == Bootstrap(explore, pick)
        unchanged == [tabular |-> tabular_action_value,
                      auxiliary |-> auxiliary_tabular_action_value,
                      flag |-> flag, delta |-> Zero]
    IN  IF b.err # "none" THEN [err |-> b.err] @@ unchanged
        ELSE IF get_action_value_to_update.err # "none"
        THEN [err |-> get_action_value_to_update.err] @@ unchanged
        ELSE [delta |-> RMul(alpha, td_error(b.value))]
             @@ agent_update_action_value(RMul(alpha, td_error(b.value)))

(***************************************************************************)
(* Train.train and Train.run_episode.                                      *)
(*   pc = "train"  at the head of the for loop of train()                  *)
(*   pc = "while"  at the test of the while loop of run_episode()          *)
(*   pc = "update" between act_once() and control.update()                 *)
(*   pc = "raised" an exception left train()                               *)
(***************************************************************************)
TrainInit ==
    /\ actions = get_actions
    /\ epsilon = R(1, 2)
    /\ double \in BOOLEAN
    /\ flag = 0
    /\ tabular_action_value = NewTable(get_states, actions)
    /\ auxiliary_tabular_action_value = NewTable(get_states, actions)
    /\ greedy \in BOOLEAN
    /\ control \in Controls
    /\ alpha = R(1, 2)
    /\ discount \in {Zero, One}
    /\ timeout = MaxTimeout
    /\ position = None
    /\ elapsed = None
    /\ game_over = FALSE
    /\ start_state = None
    /\ agent_states = None
    /\ agent_actions = None
    /\ latest_reward = None
    /\ episode_reward = None
    /\ episodes = MaxEpisodes
    /\ episode_rewards = <<>>
    /\ pc = "train"
    /\ last = NoCall
    /\ nupdates = 0

\* run_episode(): self.environment.reset()
RunEpisode ==
    /\ pc = "train"
    /\ Len(episode_rewards) < episodes
    /\ Reset
    /\ pc' = "while"
    /\ last' = Call("reset", None, 0, FALSE, Zero, "none", Zero, 0, 0)
    /\ UNCHANGED <<estimator, config, episode_rewards, nupdates>>

\* Agent.act_once, in the body of the while loop
ActOnce ==
    /\ pc = "while"
    /\ ~is_episode_over
    /\ \E explore \in RandDraws(greedy) : \E pick \in ChoiceDraws(explore) :
           \E r \in {choose_next_action(get_agent_state, greedy, explore,
                                         pick)} :
               /\ last' = Call("act_once", get_agent_state, 0, greedy, Zero,
                               r.err, Zero, r.chosen, r.drew)
               /\ IF r.err # "none"
                  THEN /\ pc' = "raised"
                       /\ UNCHANGED environment
                  ELSE /\ pc' = "update"
                       /\ PerformAction(r.chosen)
    /\ UNCHANGED <<estimator, config, episode_rewards, nupdates>>

\* self.control.update(self.agent, self.environment)
ControlUpdate ==
    /\ pc = "update"
    /\ \E explore \in BootstrapDraws : \E pick \in ChoiceDraws(explore) :
           \E r \in {ControlUpdateResult(explore, pick)} :
           \E b \in {Bootstrap(explore, pick)} :
               /\ tabular_action_value' = r.tabular
               /\ auxiliary_tabular_action_value' = r.auxiliary
               /\ flag' = r.flag
               /\ nupdates' = IF r.err = "none" THEN nupdates + 1
                              ELSE nupdates
               /\ pc' = IF r.err = "none" THEN "while" ELSE "raised"
               /\ last' = Call("control_update", get_previous_agent_state,
                               get_latest_action, greedy, r.delta, r.err,
                               b.value, b.chosen, b.drew)
    /\ UNCHANGED <<actions, epsilon, double, config, environment,
                   episode_rewards>>

\* the while loop ends: run_episode returns the episode's reward and train
\* appends it
EndEpisode ==
    /\ pc = "while"
    /\ is_episode_over
    /\ episode_rewards' = Append(episode_rewards, episode_reward)
    /\ pc' = "train"
    /\ last' = Call("get_episode_reward", None, 0, FALSE, Zero, "none",
                    RInt(episode_reward), 0, 0)
    /\ UNCHANGED <<estimator, config, environment, nupdates>>

TrainNext ==
    \/ RunEpisode
    \/ ActOnce
    \/ ControlUpdate
    \/ EndEpisode

TrainSpec == TrainInit /\ [][TrainNext]_vars

(***************************************************************************)
(* Properties of the training loop, checked under TrainSpec.               *)
(***************************************************************************)
\* the largest value of a row
Maximum(row) ==
    CHOOSE v \in {row[a] : a \in DOMAIN row} :
        \A a \in DOMAIN row : ~RLess(v, row[a])

C5_SarsaBootstrapIsNextAction ==
    [][( /\ control = "sarsa"
         /\ last.op = "control_update"
         /\ last'.op = "act_once" ) =>
           last'.chosen = last.chosen]_vars

(***************************************************************************)
(* The training loop with a caller that, between act_once() and            *)
(* control.update(), also calls the read-only operations of the agent and  *)
(* of its estimator, as control.update() itself does.                      *)
(***************************************************************************)
\* a variant that performs the action it evaluates
AgentGetNextActionValue_acts ==
    /\ pc = "update"
    /\ ~is_episode_over
    /\ \E explore \in RandDraws(greedy) : \E pick \in ChoiceDraws(explore) :
           \E r \in {get_next_action_value(explore, pick)} :
               /\ last' = Call("agent.get_next_action_value", get_agent_state,
                               0, greedy, Zero, r.err, r.value, r.chosen,
                               r.drew)
               /\ PerformAction(r.chosen)
    /\ UNCHANGED <<estimator, config, train, nupdates>>

\* Agent.get_next_action_value
AgentGetNextActionValue ==
    /\ pc = "update"
    /\ \E explore \in RandDraws(greedy) : \E pick \in ChoiceDraws(explore) :
           \E r \in {get_next_action_value(explore, pick)} :
               last' = Call("agent.get_next_action_value", get_agent_state,
                            0, greedy, Zero, r.err, r.value, r.chosen, r.drew)
    /\ UNCHANGED <<estimator, config, environment, train, nupdates>>

\* Agent.get_action_value_to_update
AgentGetActionValueToUpdate ==
    /\ pc = "update"
    /\ \E r \in {get_action_value_to_update} :
           last' = Call("agent.get_action_value_to_update",
                        get_previous_agent_state, get_latest_action, FALSE,
                        Zero, r.err, r.value, 0, 0)
    /\ UNCHANGED <<estimator, config, environment, train, nupdates>>

\* Agent.get_expected_next_action_value
AgentGetExpectedNextActionValue ==
    /\ pc = "update"
    /\ \E r \in {get_expected_next_action_value} :
           last' = Call("agent.get_expected_next_action_value",
                        get_agent_state, 0, FALSE, Zero, r.err, r.value, 0, 0)
    /\ UNCHANGED <<estimator, config, environment, train, nupdates>>

\* Agent.get_best_next_action_value
AgentGetBestNextActionValue ==
    /\ pc = "update"
    /\ \E r \in {get_best_next_action_value} :
           last' = Call("agent.get_best_next_action_value", get_agent_state,
                        0, FALSE, Zero, r.err, r.value, 0, 0)
    /\ UNCHANGED <<estimator, config, environment, train, nupdates>>

\* the states the environment hands to the agent in a transition
TransitionStates == {get_agent_state, get_previous_agent_state}

ReadNext ==
    \/ AgentGetNextActionValue
    \/ AgentGetActionValueToUpdate
    \/ AgentGetExpectedNextActionValue
    \/ AgentGetBestNextActionValue
    \/ /\ pc = "update"
       /\ \E state \in TransitionStates, action \in ValidActions :
              CallGetActionValue(state, action)
    \/ /\ pc = "update"
       /\ \E state \in TransitionStates, isGreedy \in BOOLEAN :
              CallChooseNextAction(state, isGreedy)
    \/ /\ pc = "update"
       /\ \E state \in TransitionStates : CallGetExpectedActionValue(state)
    \/ /\ pc = "update"
       /\ \E state \in TransitionStates : CallGetBestActionValue(state)

\* the reads do not depend on the control: one control and one discount
ReadInit ==
    /\ TrainInit
    /\ control = "expected_sarsa"
    /\ discount = One

ReadSpec == ReadInit /\ [][TrainNext \/ ReadNext]_vars

ReadOps == {"get_action_value", "get_expected_action_value",
            "get_best_action_value", "choose_next_action",
            "agent.get_next_action_value",
            "agent.get_action_value_to_update",
            "agent.get_expected_next_action_value",
            "agent.get_best_next_action_value"}

\* C10: every read-only operation of the estimator and of the agent leaves
\* both tables, the flag and the environment as they were, so
\* get_action_value(state, action) returns the same value before and after
\* it, for the states of the transition and every action.
C10_ReadsChangeNothing ==
    [][last'.op \in ReadOps =>
          /\ UNCHANGED <<tables, flag, environment>>
          /\ \A state \in TransitionStates, action \in ValidActions :
                 get_action_value(state, action)' =
                     get_action_value(state, action)]_vars

\* C10 happens: the agent's peek at its next action followed another read,
\* on a double estimator with flag 1 and a value that is not 0
C10_Witness ==
    /\ last.op = "agent.get_next_action_value"
    /\ last.err = "none"
    /\ last.value # Zero
    /\ double
    /\ flag = 1
    /\ position # start_state

(***************************************************************************)
(* QLearning under every behavior policy: the training loop with the       *)
(* QLearning control, an agent that is greedy or not, and epsilon 0 or 1/2.*)
(***************************************************************************)
PolicyInit ==
    /\ actions = get_actions
    /\ epsilon \in Epsilons
    /\ double \in BOOLEAN
    /\ flag = 0
    /\ tabular_action_value = NewTable(get_states, actions)
    /\ auxiliary_tabular_action_value = NewTable(get_states, actions)
    /\ greedy \in BOOLEAN
    /\ control = "qlearning"
    /\ alpha = R(1, 2)
    /\ discount \in {Zero, One}
    /\ timeout = MaxTimeout
    /\ position = None
    /\ elapsed = None
    /\ game_over = FALSE
    /\ start_state = None
    /\ agent_states = None
    /\ agent_actions = None
    /\ latest_reward = None
    /\ episode_reward = None
    /\ episodes = MaxEpisodes
    /\ episode_rewards = <<>>
    /\ pc = "train"
    /\ last = NoCall
    /\ nupdates = 0

PolicySpec == PolicyInit /\ [][TrainNext]_vars

\* the table the next update_action_value call writes, by name
WrittenNext == IF ~double \/ flag = 0 THEN "primary" ELSE "auxiliary"

\* a table by name
Table(name) ==
    IF name = "primary" THEN tabular_action_value
    ELSE auxiliary_tabular_action_value

\* the other table in double mode, the only table otherwise
OtherTable(name) ==
    IF ~double THEN "primary"
    ELSE IF name = "primary" THEN "auxiliary" ELSE "primary"

\* the increment of a QLearning update written from the tables, the toggle
\* and the transition (previous state, latest action, latest reward, current
\* state) alone
QLearningIncrement ==
    LET s == agent_states[Len(agent_states) - 1]
        a == agent_actions[Len(agent_actions)]
        old == Table(WrittenNext)[s][a]
        best == Maximum(Table(OtherTable(WrittenNext))[position])
    IN  RMul(alpha, RSub(RAdd(RInt(latest_reward), RMul(discount, best)),
                         old))

\* C11: the increment QLearning.update applies, and the entry it applies it
\* to, are a function of the tables, the toggle and the transition alone:
\* for every greedy flag, every epsilon and every outcome of the random
\* draws, the update adds QLearningIncrement to the entry (previous state,
\* latest action) of the table written next and changes nothing else, so
\* two runs that agree on tables, toggle and transition apply the same
\* delta to the same entry.
C11_QLearningIgnoresPolicy ==
    [][( /\ control = "qlearning"
         /\ pc = "update"
         /\ last'.op = "control_update" ) =>
           LET s == agent_states[Len(agent_states) - 1]
               a == agent_actions[Len(agent_actions)]
               d == QLearningIncrement
           IN  /\ last'.err = "none"
               /\ last'.delta = d
               /\ IF WrittenNext = "primary"
                  THEN /\ tabular_action_value' =
                              [tabular_action_value EXCEPT
                                  ![s][a] = RAdd(@, d)]
                       /\ UNCHANGED auxiliary_tabular_action_value
                  ELSE /\ auxiliary_tabular_action_value' =
                              [auxiliary_tabular_action_value EXCEPT
                                  ![s][a] = RAdd(@, d)]
                       /\ UNCHANGED tabular_action_value]_vars

\* C11 happens: the QLearning update of a greedy agent, in a run where
\* epsilon is 1/2, moved an entry of the auxiliary table
C11_Witness ==
    /\ control = "qlearning"
    /\ greedy
    /\ epsilon = R(1, 2)
    /\ double
    /\ flag = 0
    /\ last.op = "control_update"
    /\ last.err = "none"
    /\ last.delta # Zero

(***************************************************************************)
(* The sequencing of the driver loop, checked under TrainSpec.             *)
(***************************************************************************)
\* the value the control's bootstrap has when it is evaluated at a state:
\* for Sarsa the value of the action the update chose there
BootstrapAt(state, chosen) ==
    IF control = "sarsa" THEN Table(WrittenNext)[state][chosen]
    ELSE IF control = "expected_sarsa"
    THEN get_expected_action_value(state).value
    ELSE get_best_action_value(state).value

\* C12: in the driver loop a control.update happens only right after an
\* act_once, and every act_once is followed by a control.update; the update
\* changes no entry of either table but the one of (the state act_once chose
\* in, the action act_once performed), to which it adds its delta in the
\* table written next, and its bootstrap is the one evaluated at the state
\* the agent is in after act_once.  The first step of an episode is not an
\* exception.
C12_UpdateFollowsActOnce ==
    [][/\ (last'.op = "control_update") = (last.op = "act_once")
       /\ last'.op = "control_update" =>
            LET s == last.state
                a == last.chosen
            IN  /\ last'.err = "none"
                /\ last'.state = s
                /\ last'.action = a
                /\ UNCHANGED environment
                /\ last'.value = BootstrapAt(position, last'.chosen)
                /\ IF WrittenNext = "primary"
                   THEN /\ tabular_action_value' =
                               [tabular_action_value EXCEPT
                                   ![s][a] = RAdd(@, last'.delta)]
                        /\ UNCHANGED auxiliary_tabular_action_value
                   ELSE /\ auxiliary_tabular_action_value' =
                               [auxiliary_tabular_action_value EXCEPT
                                   ![s][a] = RAdd(@, last'.delta)]
                        /\ UNCHANGED tabular_action_value]_vars

\* C12 happens: the update of the first step of an episode moved the entry
\* of the start state, from which the agent had moved away
C12_Witness ==
    /\ last.op = "control_update"
    /\ last.err = "none"
    /\ Len(agent_actions) = 1
    /\ last.state = start_state
    /\ position # start_state
    /\ last.delta # Zero
    /\ Len(episode_rewards) = 1

(***************************************************************************)
(* Which table a double estimator reads and which it writes, checked under *)
(* TrainSpec.                                                              *)
(***************************************************************************)
\* the bootstrap of QLearning (the maximum) or of ExpectedSarsa (the
\* epsilon-greedy expectation) over a row
OffTableBootstrap(row) ==
    IF control = "qlearning" THEN Maximum(row)
    ELSE EpsilonGreedyExpectation(row, FirstMaximalIndex(row))

\* the states with an entry that is not 0 in either table (on the others
\* the two tables agree)
UpdatedStates ==
    {state \in DOMAIN tabular_action_value :
        \E a \in ValidActions :
            \/ tabular_action_value[state][a] # Zero
            \/ auxiliary_tabular_action_value[state][a] # Zero}

\* C13: in double mode, in every reachable state and for every state with an
\* entry that is not 0, get_best_action_value and get_expected_action_value read the
\* table that the next update_action_value call does not write (auxiliary
\* when the flag is 0, primary when it is 1); and every QLearning or
\* ExpectedSarsa update writes one table, leaves the other alone, takes its
\* bootstrap from the other table and its current estimate from the table it
\* writes.
C13_BootstrapFromOtherTable ==
    /\ [](double =>
            LET read == IF flag = 0 THEN auxiliary_tabular_action_value
                        ELSE tabular_action_value
            IN  \A state \in UpdatedStates :
                    /\ get_best_action_value(state).value =
                           Maximum(read[state])
                    /\ get_expected_action_value(state).value =
                           EpsilonGreedyExpectation(
                               read[state], FirstMaximalIndex(read[state])))
    /\ [][( /\ double
            /\ control \in {"qlearning", "expected_sarsa"}
            /\ last'.op = "control_update" ) =>
              LET s == last.state
                  a == last.chosen
                  written == IF flag = 0 THEN tabular_action_value
                             ELSE auxiliary_tabular_action_value
                  other == IF flag = 0 THEN auxiliary_tabular_action_value
                           ELSE tabular_action_value
                  boot == OffTableBootstrap(other[position])
                  d == RMul(alpha,
                            RSub(RAdd(RInt(latest_reward),
                                      RMul(discount, boot)),
                                 written[s][a]))
              IN  /\ last'.value = boot
                  /\ last'.delta = d
                  /\ IF flag = 0
                     THEN /\ tabular_action_value' = Bumped(written, s, a, d)
                          /\ UNCHANGED auxiliary_tabular_action_value
                     ELSE /\ auxiliary_tabular_action_value' =
                                 Bumped(written, s, a, d)
                          /\ UNCHANGED tabular_action_value]_vars

\* C13 happens: an update of a double estimator wrote the auxiliary table
\* with a bootstrap that is not 0, read in a state where the primary and
\* the auxiliary row differ
C13_Witness ==
    /\ double
    /\ control \in {"qlearning", "expected_sarsa"}
    /\ last.op = "control_update"
    /\ last.err = "none"
    /\ flag = 0
    /\ last.value # Zero
    /\ tabular_action_value[position]
           # auxiliary_tabular_action_value[position]

(***************************************************************************)
(* The table get_action_value reads on a double estimator, checked under   *)
(* Spec.                                                                   *)
(***************************************************************************)
\* C14: in double mode get_action_value(state, action) returns the entry of
\* the primary table when the flag is 0 and of the auxiliary table when it
\* is 1; right after update_action_value(state, action, d) returned, that is
\* the entry of the table the update did not write, as it was before the
\* update, whatever d is.
C14_ReadsTableNotJustWritten ==
    /\ [](double =>
            \A state \in HarnessStates, action \in ValidActions :
                get_action_value(state, action).value =
                    IF flag = 0 THEN tabular_action_value[state][action]
                    ELSE auxiliary_tabular_action_value[state][action])
    /\ [][\A state \in HarnessStates, action \in ValidActions, d \in Updates :
            (double /\ UpdateReturned(state, action, d)) =>
                LET other == IF flag = 0 THEN auxiliary_tabular_action_value
                             ELSE tabular_action_value
                    written == IF flag = 0 THEN tabular_action_value'
                               ELSE auxiliary_tabular_action_value'
                IN  /\ get_action_value(state, action)'.err = "none"
                    /\ get_action_value(state, action)'.value =
                           other[state][action]
                    /\ written[state][action] =
                           RAdd(get_action_value(state, action).value, d)]_vars

\* C14 happens: after the second update of a pair on a double estimator the
\* two tables hold different values for it
C14_Witness ==
    /\ double
    /\ last.op = "update_action_value"
    /\ last.err = "none"
    /\ nupdates = 2
    /\ tabular_action_value[last.state][last.action] # Zero
    /\ auxiliary_tabular_action_value[last.state][last.action] # Zero
    /\ tabular_action_value[last.state][last.action]
           # auxiliary_tabular_action_value[last.state][last.action]

(***************************************************************************)
(* The flag over the updates of an estimator, checked under Spec.          *)
(***************************************************************************)
\* C15, as claimed: on any estimator the flag is 0 at first and after the
\* n-th update_action_value call that returned it equals n mod 2.
C15_FlagAlternatesOnAnyEstimator ==
    flag = nupdates % 2

\* C15, amended: the flag is 0 at first; on a double estimator it equals
\* n mod 2 after the n-th update_action_value call that returned; on a
\* non-double estimator it is 1 after every such call.
C15_FlagAlternatesWhenDouble ==
    flag = IF double THEN nupdates % 2
           ELSE IF nupdates = 0 THEN 0 ELSE 1

\* C15 happens: the second update of a non-double estimator returned
C15_Witness ==
    /\ ~double
    /\ last.op = "update_action_value"
    /\ last.err = "none"
    /\ nupdates = 2
    /\ flag = 1

(***************************************************************************)
(* The test harness with estimators built from other action lists: the     *)
(* codes of the moves a level allows, such as north and east only.         *)
(***************************************************************************)
ActionLists == {HarnessActions, <<0, 3>>}

ActionListInit ==
    /\ actions \in ActionLists
    /\ epsilon \in Epsilons
    /\ double \in BOOLEAN
    /\ flag = 0
    /\ tabular_action_value = NewTable(HarnessStates, actions)
    /\ auxiliary_tabular_action_value = NewTable(HarnessStates, actions)
    /\ last = NoCall
    /\ nupdates = 0
    /\ greedy = FALSE
    /\ control = None
    /\ alpha = None
    /\ discount = None
    /\ timeout = None
    /\ position = None
    /\ elapsed = None
    /\ game_over = FALSE
    /\ start_state = None
    /\ agent_states = None
    /\ agent_actions = None
    /\ latest_reward = None
    /\ episode_reward = None
    /\ episodes = 0
    /\ episode_rewards = <<>>
    /\ pc = "harness"

ActionListSpec == ActionListInit /\ [][Next]_vars

\* C16: an action choose_next_action returned for a valid state, from the
\* greedy or from the random branch, is an index in [0, |actions|), and
\* get_action_value and update_action_value accept it for that state.
C16_ChosenActionIsIndex ==
    (last.op = "choose_next_action" /\ last.err = "none") =>
        /\ last.chosen \in ValidActions
        /\ get_action_value(last.state, last.chosen).err = "none"
        /\ update_action_value(last.state, last.chosen, Zero).err = "none"

(***************************************************************************)
(* One episode under every timeout: Train(episodes=1) over                 *)
(* GridWorld(timeout=t), t from 1 to one more than MaxTimeout.             *)
(***************************************************************************)
EpisodeInit ==
    /\ actions = get_actions
    /\ epsilon = R(1, 2)
    /\ double \in BOOLEAN
    /\ flag = 0
    /\ tabular_action_value = NewTable(get_states, actions)
    /\ auxiliary_tabular_action_value = NewTable(get_states, actions)
    /\ greedy \in BOOLEAN
    /\ control \in Controls
    /\ alpha = R(1, 2)
    /\ discount \in {Zero, One}
    /\ timeout \in 1..(MaxTimeout + 1)
    /\ position = None
    /\ elapsed = None
    /\ game_over = FALSE
    /\ start_state = None
    /\ agent_states = None
    /\ agent_actions = None
    /\ latest_reward = None
    /\ episode_reward = None
    /\ episodes = 1
    /\ episode_rewards = <<>>
    /\ pc = "train"
    /\ last = NoCall
    /\ nupdates = 0

EpisodeSpec == EpisodeInit /\ [][TrainNext]_vars

\* C17: with a timeout of at least 1, the moves the player counts are the
\* perform_action calls since reset, there are never more than `timeout` of
\* them, and after `timeout` of them is_episode_over() holds whether the
\* goal was reached or not.  Every pass of the while loop of run_episode is
\* one perform_action call followed by one control.update that leaves the
\* environment alone, and a test of the loop that finds the episode over is
\* followed by the return: run_episode returns after at most `timeout`
\* passes.
C17_EpisodeEndsWithinTimeout ==
    /\ [](pc \in {"while", "update"} =>
            /\ timeout >= 1
            /\ elapsed = Len(agent_actions)
            /\ Len(agent_actions) <= timeout
            /\ Len(agent_actions) = timeout => is_episode_over)
    /\ [][/\ (pc = "while" /\ is_episode_over) => pc' = "train"
          /\ (pc = "while" /\ ~is_episode_over) =>
                 /\ pc' = "update"
                 /\ Len(agent_actions') = Len(agent_actions) + 1
          /\ pc = "update" =>
                 /\ pc' = "while"
                 /\ UNCHANGED environment]_vars

\* C17 happens: an episode was cut off after `timeout` moves, more than one,
\* away from the goal
C17_Witness ==
    /\ pc = "train"
    /\ Len(episode_rewards) = 1
    /\ is_episode_over
    /\ timeout > 1
    /\ Len(agent_actions) = timeout
    /\ Art(position) # "G"

(***************************************************************************)
(* The entries of the goal state, checked under TrainSpec.                 *)
(***************************************************************************)
\* the tile 'G' of the level
GoalState == CHOOSE p \in get_states : Art(p) = "G"

\* C18: under the driver loop, with each of the three controls and in every
\* episode, no update targets the goal state and every entry of the goal
\* state is 0 in both tables; the update of a transition that reaches the
\* goal has a bootstrap of 0 and adds alpha * (reward - Q(s, a)), Q(s, a)
\* being the current estimate of the pair in the table written.
C18_GoalEntriesStayZero ==
    /\ [](\A a \in ValidActions :
             /\ tabular_action_value[GoalState][a] = Zero
             /\ auxiliary_tabular_action_value[GoalState][a] = Zero)
    /\ [][last'.op = "control_update" =>
            /\ last'.err = "none"
            /\ last'.state # GoalState
            /\ position = GoalState =>
                 /\ last'.value = Zero
                 /\ last'.delta =
                        RMul(alpha,
                             RSub(RInt(latest_reward),
                                  Table(WrittenNext)[last'.state]
                                                    [last'.action]))]_vars

\* C18 happens: in a later episode, with entries of other states already
\* moved, the update of a transition that reached the goal returned
C18_Witness ==
    /\ last.op = "control_update"
    /\ last.err = "none"
    /\ position = GoalState
    /\ Len(episode_rewards) >= 1
    /\ \E state \in get_states, a \in ValidActions :
           tabular_action_value[state][a] # Zero

====
